---- MODULE Spec2Model ----
(***************************************************************************)
(* Model of solar_energy_dashboard.py: the cached synthetic data generator *)
(* load_solar_data, the sidebar filters and the per-season aggregation.    *)
(*                                                                         *)
(* Numbers.  Python floats are modelled as exact fixed-point integers:     *)
(*   - an unrounded sample is an integer count of 1/Unit, Unit = 100 *     *)
(*     SubSteps, so one cent (0.01) is SubSteps sample units;              *)
(*   - a coefficient is an integer count of thousandths;                   *)
(*   - an unrounded kwh is therefore a count of 1/(1000 * Unit);           *)
(*   - every value stored in a row went through round(x, 2) and is an      *)
(*     integer count of cents.                                             *)
(***************************************************************************)
EXTENDS Integers, Sequences, FiniteSets

\* sample units per cent: the resolution of the unrounded samples
SubSteps == 2
\* number of browser sessions served by the one Streamlit process
NumSessions == 2
\* total number of script runs (first renders and re-renders) explored
MaxRuns == 3
\* the generator's seed is drawn from 1..NumSeeds
NumSeeds == 1
\* resolution of the modelled random stream: a draw is u / RngRes in [0, 1)
RngRes == 64

Unit == 100 * SubSteps
KwhCent == 1000 * SubSteps

VARIABLES
    rng,               \* np.random global generator: [seed, pos]
    cache,             \* st.cache_data store of load_solar_data: [hit, value]
    data,              \* generate_complete_year_data: the list of rows
    day_counter,       \* generate_complete_year_data: running day number
    month,             \* loop variable of the month loop
    draw,              \* irr, hum, wind, temp, tilt of the last iteration
    kwh,               \* unrounded kwh of the last iteration
    df,                \* per session: the table the last script run loaded
    selected_seasons,  \* per session: value of the season multiselect
    selected_months,   \* per session: value of the month multiselect
    filtered_df,       \* per session: the filtered view of the last run
    seasonal_avg,      \* per session: groupby('season')['kwh'].mean()
    started,           \* per session: the script has run at least once
    sampled,           \* per session: generator executions caused by it
    runs               \* total number of script runs so far

vars == <<rng, cache, data, day_counter, month, draw, kwh, df, selected_seasons,
          selected_months, filtered_df, seasonal_avg, started, sampled, runs>>

genVars == <<data, day_counter, month, draw, kwh>>
sessVars == <<df, selected_seasons, selected_months, filtered_df, seasonal_avg,
              started, sampled, runs>>

Sessions == 1..NumSessions

(***************************************************************************)
(* The fixed tables of load_solar_data.                                    *)
(***************************************************************************)
Fields == <<"irradiance", "humidity", "wind_speed", "ambient_temperature", "tilt_angle">>

feature_ranges ==
    [ summer  |-> [ irradiance |-> <<600, 1000>>, humidity |-> <<10, 50>>,
                    wind_speed |-> <<0, 5>>, ambient_temperature |-> <<30, 45>>,
                    tilt_angle |-> <<10, 40>> ],
      winter  |-> [ irradiance |-> <<300, 700>>, humidity |-> <<30, 70>>,
                    wind_speed |-> <<1, 6>>, ambient_temperature |-> <<5, 20>>,
                    tilt_angle |-> <<10, 40>> ],
      monsoon |-> [ irradiance |-> <<100, 600>>, humidity |-> <<70, 100>>,
                    wind_speed |-> <<2, 8>>, ambient_temperature |-> <<20, 35>>,
                    tilt_angle |-> <<10, 40>> ] ]

\* the keys of months_days in insertion order, which is the iteration order
MonthOrder ==
    <<"January", "February", "March", "April", "May", "June", "July", "August",
      "September", "October", "November", "December">>

MonthNames == { MonthOrder[i] : i \in 1..Len(MonthOrder) }

months_days_leap ==
    [ January |-> 31, February |-> 29, March |-> 31, April |-> 30,
      May |-> 31, June |-> 30, July |-> 31, August |-> 31,
      September |-> 30, October |-> 31, November |-> 30, December |-> 31 ]

months_days ==
    [ January |-> 31, February |-> 28, March |-> 31, April |-> 30,
      May |-> 31, June |-> 30, July |-> 31, August |-> 31,
      September |-> 30, October |-> 31, November |-> 30, December |-> 31 ]

month_to_season_shifted ==
    [ January |-> "winter", February |-> "winter", March |-> "winter",
      April |-> "summer", May |-> "summer", June |-> "summer",
      July |-> "monsoon", August |-> "monsoon", September |-> "monsoon",
      October |-> "monsoon", November |-> "winter", December |-> "winter" ]

month_to_season ==
    [ January |-> "winter", February |-> "winter", March |-> "summer",
      April |-> "summer", May |-> "summer", June |-> "summer",
      July |-> "monsoon", August |-> "monsoon", September |-> "monsoon",
      October |-> "monsoon", November |-> "winter", December |-> "winter" ]

MonthSeason(m) == month_to_season[m]

Abs(x) == IF x < 0 THEN -x ELSE x

(***************************************************************************)
(* The three formulas.  Arguments in sample units, result in 1/(1000*Unit).*)
(***************************************************************************)
calc_kwh_summer(irradiance, humidity, wind_speed, ambient_temp, tilt_angle) ==
    250 * irradiance - 50 * humidity + 20 * wind_speed + 100 * ambient_temp
        - 30 * Abs(tilt_angle - 30 * Unit)

calc_kwh_winter(irradiance, humidity, wind_speed, ambient_temp, tilt_angle) ==
    180 * irradiance - 30 * humidity + 15 * wind_speed + 80 * ambient_temp
        - 20 * Abs(tilt_angle - 30 * Unit)

calc_kwh_monsoon_typo(irradiance, humidity, wind_speed, ambient_temp, tilt_angle) ==
    150 * irradiance - 1000 * humidity + 10 * wind_speed + 50 * ambient_temp
        - 40 * Abs(tilt_angle - 30 * Unit)

calc_kwh_monsoon(irradiance, humidity, wind_speed, ambient_temp, tilt_angle) ==
    150 * irradiance - 100 * humidity + 10 * wind_speed + 50 * ambient_temp
        - 40 * Abs(tilt_angle - 30 * Unit)

get_kwh_calculator_pasted(season) ==
    IF season = "summer" THEN "calc_kwh_summer"
    ELSE IF season = "winter" THEN "calc_kwh_summer"
    ELSE IF season = "monsoon" THEN "calc_kwh_monsoon"
    ELSE "None"

\* the name of the formula the dispatch returns; "None" when no branch matches
get_kwh_calculator(season) ==
    IF season = "summer" THEN "calc_kwh_summer"
    ELSE IF season = "winter" THEN "calc_kwh_winter"
    ELSE IF season = "monsoon" THEN "calc_kwh_monsoon"
    ELSE "None"

\* calc_kwh_func(irr, hum, wind, temp, tilt); calling None raises TypeError
CallCalc(func, d) ==
    CASE func = "calc_kwh_summer"  -> calc_kwh_summer(d[1], d[2], d[3], d[4], d[5])
      [] func = "calc_kwh_winter"  -> calc_kwh_winter(d[1], d[2], d[3], d[4], d[5])
      [] func = "calc_kwh_monsoon" -> calc_kwh_monsoon(d[1], d[2], d[3], d[4], d[5])
      [] OTHER -> "TypeError"

(***************************************************************************)
(* round(x, 2): x counts 1/(100*k); the result counts cents.  Ties go to   *)
(* the even cent.                                                          *)
(***************************************************************************)
Round1(x, k) ==
    LET q == x \div (10 * k)
        r == x % (10 * k)
    IN 10 * (IF 2 * r < 10 * k THEN q
             ELSE IF 2 * r > 10 * k THEN q + 1
             ELSE IF q % 2 = 0 THEN q ELSE q + 1)

Round2(x, k) ==
    LET q == x \div k
        r == x % k
    IN IF 2 * r < k THEN q
       ELSE IF 2 * r > k THEN q + 1
       ELSE IF q % 2 = 0 THEN q ELSE q + 1

(***************************************************************************)
(* The body of the day loop for one tuple of five samples.                 *)
(***************************************************************************)
NoDraw == <<0, 0, 0, 0, 0>>

LoopBody(st, mon, season, calc_kwh_func, smp) ==
    LET k == CallCalc(calc_kwh_func, smp)
    IN [ data |-> Append(st.data,
                    [ day |-> st.day_counter,
                      irradiance |-> Round2(smp[1], SubSteps),
                      humidity |-> Round2(smp[2], SubSteps),
                      wind_speed |-> Round2(smp[3], SubSteps),
                      ambient_temperature |-> Round2(smp[4], SubSteps),
                      tilt_angle |-> Round2(smp[5], SubSteps),
                      kwh |-> Round2(k, KwhCent),
                      season |-> season,
                      month |-> mon ]),
         day_counter |-> st.day_counter + 1,
         draw |-> smp,
         kwh |-> k,
         pos |-> st.pos ]

(***************************************************************************)
(* np.random.uniform(low, high).  The generator is a deterministic stream  *)
(* of the seed the process started with; draw number pos is u / RngRes.    *)
(***************************************************************************)
Stream(seed, pos) == (seed * (7 * pos + 3) + (pos \div 5) * 11 + pos * pos) % RngRes

uniform(low, high, u) == low * Unit + ((high - low) * Unit * u) \div RngRes

RangeOfSummer(season, field) == feature_ranges["summer"][field]

\* feature_ranges[season][field], the (low, high) pair handed to uniform
RangeOf(season, field) == feature_ranges[season][field]

SampleRow(seed, pos, season) ==
    [ i \in 1..5 |->
        uniform(RangeOf(season, Fields[i])[1], RangeOf(season, Fields[i])[2],
                Stream(seed, pos + i - 1)) ]

\* day_counter = 1
FirstDay == 1

RECURSIVE DayLoop(_, _, _, _, _, _)
DayLoop(st, seed, mon, season, calc_kwh_func, days) ==
    \* (st.pos < 0 never holds: it makes the evaluator compute st at each step)
    IF days = 0 \/ st.pos < 0 THEN st
    ELSE LET nx == LoopBody(st, mon, season, calc_kwh_func,
                            SampleRow(seed, st.pos, season))
         IN DayLoop([nx EXCEPT !.pos = st.pos + 5], seed, mon, season,
                    calc_kwh_func, days - 1)

RECURSIVE MonthLoop(_, _, _)
MonthLoop(st, seed, mi) ==
    IF mi > Len(MonthOrder) THEN st
    ELSE LET mon == MonthOrder[mi]
             season == MonthSeason(mon)
         IN MonthLoop(DayLoop(st, seed, mon, season, get_kwh_calculator(season),
                              months_days[mon]),
                      seed, mi + 1)


generate_complete_year_data(seed, pos) ==
    MonthLoop([ data |-> <<>>, day_counter |-> FirstDay, draw |-> NoDraw,
                kwh |-> 0, pos |-> pos ], seed, 1)


(***************************************************************************)
(* @st.cache_data def load_solar_data(): one process-wide entry, keyed by  *)
(* the function and its (empty) argument list, shared by every session.    *)
(***************************************************************************)
NoCache == FALSE

CacheHit == cache.hit

load_solar_data ==
    IF CacheHit
    THEN [ table |-> cache.value, miss |-> FALSE, pos |-> rng.pos,
           data |-> data, day_counter |-> day_counter, month |-> month,
           draw |-> draw, kwh |-> kwh ]
    ELSE LET st == generate_complete_year_data(rng.seed, rng.pos)
         IN [ table |-> st.data, miss |-> TRUE, pos |-> st.pos,
              data |-> st.data, day_counter |-> st.day_counter,
              month |-> MonthOrder[Len(MonthOrder)],
              draw |-> st.draw, kwh |-> st.kwh ]

(***************************************************************************)
(* The presentation layer: widgets, filter and per-season mean.            *)
(***************************************************************************)
\* df[col].unique() as a set of option values
Unique(table, col) == { table[i][col] : i \in 1..Len(table) }

FilterRowsOr(table, S, M) ==
    SelectSeq(table, LAMBDA r : r.season \in S \/ r.month \in M)

\* df[(df['season'].isin(S)) & (df['month'].isin(M))]
FilterRows(table, S, M) ==
    SelectSeq(table, LAMBDA r : r.season \in S /\ r.month \in M)

\* Series.sum() over rows lo..hi, summed by halves
RECURSIVE SumKwh(_, _, _)
SumKwh(table, lo, hi) ==
    IF lo > hi THEN 0
    ELSE IF lo = hi THEN table[lo].kwh
    ELSE LET mid == (lo + hi) \div 2
         IN SumKwh(table, lo, mid) + SumKwh(table, mid + 1, hi)

\* Series.mean() as the exact fraction num / den
Mean(table) == [ num |-> SumKwh(table, 1, Len(table)), den |-> Len(table) ]

GroupByMonth(table) ==
    [ g \in Unique(table, "month") |->
        Mean(SelectSeq(table, LAMBDA r : r.month = g)) ]

\* filtered_df.groupby('season')['kwh'].mean()
GroupBySeason(table) ==
    [ g \in Unique(table, "season") |->
        Mean(SelectSeq(table, LAMBDA r : r.season = g)) ]

\* one run of the script for session s with the widget values S and M
ScriptRun(s, S, M) ==
    LET r == load_solar_data
        view == FilterRows(r.table, S, M)
    IN /\ runs < MaxRuns
       /\ cache' = [ hit |-> TRUE, value |-> r.table ]
       /\ rng' = [ rng EXCEPT !.pos = r.pos ]
       /\ data' = r.data
       /\ day_counter' = r.day_counter
       /\ month' = r.month
       /\ draw' = r.draw
       /\ kwh' = r.kwh
       /\ df' = [ df EXCEPT ![s] = r.table ]
       /\ selected_seasons' = [ selected_seasons EXCEPT ![s] = S ]
       /\ selected_months' = [ selected_months EXCEPT ![s] = M ]
       /\ filtered_df' = [ filtered_df EXCEPT ![s] = view ]
       /\ seasonal_avg' = [ seasonal_avg EXCEPT ![s] = GroupBySeason(view) ]
       /\ started' = [ started EXCEPT ![s] = TRUE ]
       /\ sampled' = [ sampled EXCEPT ![s] = @ + (IF r.miss THEN 1 ELSE 0) ]
       /\ runs' = runs + 1

\* a browser opens the page: both multiselects start with every option
FirstRun(s) ==
    /\ ~started[s]
    /\ LET t == load_solar_data.table
       IN ScriptRun(s, Unique(t, "season"), Unique(t, "month"))

\* the user adds or removes one season in the sidebar: the script re-runs
ToggleSeason(s, x) ==
    /\ started[s]
    /\ x \in Unique(df[s], "season")
    /\ ScriptRun(s, IF x \in selected_seasons[s]
                    THEN selected_seasons[s] \ {x}
                    ELSE selected_seasons[s] \cup {x},
                 selected_months[s])

\* the user adds or removes one month in the sidebar: the script re-runs
ToggleMonth(s, m) ==
    /\ started[s]
    /\ m \in Unique(df[s], "month")
    /\ ScriptRun(s, selected_seasons[s],
                 IF m \in selected_months[s]
                 THEN selected_months[s] \ {m}
                 ELSE selected_months[s] \cup {m})

SessInit ==
    /\ df = [ s \in Sessions |-> <<>> ]
    /\ selected_seasons = [ s \in Sessions |-> {} ]
    /\ selected_months = [ s \in Sessions |-> {} ]
    /\ filtered_df = [ s \in Sessions |-> <<>> ]
    /\ seasonal_avg = [ s \in Sessions |-> <<>> ]
    /\ started = [ s \in Sessions |-> FALSE ]
    /\ sampled = [ s \in Sessions |-> 0 ]
    /\ runs = 0

Init ==
    /\ rng \in [ seed : 1..NumSeeds, pos : {0} ]
    /\ cache = [ hit |-> FALSE, value |-> <<>> ]
    /\ data = <<>>
    /\ day_counter = FirstDay
    /\ month = MonthOrder[1]
    /\ draw = NoDraw
    /\ kwh = 0
    /\ SessInit

Next ==
    \/ \E s \in Sessions : FirstRun(s)
    \/ \E s \in Sessions : \E x \in {"summer", "winter", "monsoon"} : ToggleSeason(s, x)
    \/ \E s \in Sessions : \E m \in MonthNames : ToggleMonth(s, m)

Spec == Init /\ [][Next]_vars

(***************************************************************************)
(* One iteration of the day loop on every sample the uniform draws can     *)
(* produce at the ends of the ranges: low + i and high - 1 - i sample      *)
(* units (the interval is half open), plus the two sample tuples of the    *)
(* documented scenarios.                                                   *)
(***************************************************************************)
Candidates(low, high) ==
    { low * Unit + i : i \in 0..(SubSteps - 1) } \cup
    { high * Unit - 1 - i : i \in 0..(SubSteps - 1) }

Scenario(season) ==
    IF season = "summer"
    THEN { <<800 * Unit, 30 * Unit, 2 * Unit, 38 * Unit, 30 * Unit>> }
    ELSE IF season = "winter"
    THEN { <<500 * Unit, 50 * Unit, 3 * Unit, 12 * Unit, 10 * Unit>> }
    ELSE {}

Cand(season, i) ==
    Candidates(RangeOf(season, Fields[i])[1], RangeOf(season, Fields[i])[2])

SamplePoints(season) ==
    { <<a, b, c, d, e>> : a \in Cand(season, 1), b \in Cand(season, 2),
                          c \in Cand(season, 3), d \in Cand(season, 4),
                          e \in Cand(season, 5) }
    \cup Scenario(season)

SampleDay ==
    /\ data = <<>>
    /\ LET season == MonthSeason(month)
       IN \E smp \in SamplePoints(season) :
            LET nx == LoopBody([ data |-> data, day_counter |-> day_counter,
                                 draw |-> draw, kwh |-> kwh, pos |-> rng.pos ],
                               month, season, get_kwh_calculator(season), smp)
            IN /\ data' = nx.data
               /\ day_counter' = nx.day_counter
               /\ draw' = nx.draw
               /\ kwh' = nx.kwh
    /\ UNCHANGED <<rng, cache, month, sessVars>>

InitRow ==
    /\ rng = [ seed |-> 1, pos |-> 0 ]
    /\ cache = [ hit |-> FALSE, value |-> <<>> ]
    /\ data = <<>>
    /\ day_counter = FirstDay
    /\ month \in MonthNames
    /\ draw = NoDraw
    /\ kwh = 0
    /\ SessInit

NextRow == SampleDay

SpecRow == InitRow /\ [][NextRow]_vars


(***************************************************************************)
(* Properties.                                                             *)
(***************************************************************************)
AllSeasons == {"summer", "winter", "monsoon"}

\* C1: every table load_solar_data returned has exactly 365 rows and the
\* i-th row carries day i (1..365, contiguous, increasing, no duplicate);
\* the generator leaves day_counter one past the number of rows appended.
C1_DaysAre1To365 ==
    /\ cache.hit => (data = cache.value /\ day_counter = Len(data) + 1)
    /\ \A s \in Sessions :
          started[s] =>
              /\ Len(df[s]) = 365
              /\ \A i \in 1..Len(df[s]) : df[s][i].day = i

C1_Witness ==
    \E s \in Sessions :
        /\ started[s]
        /\ Len(df[s]) = 365
        /\ df[s][1].day = 1
        /\ df[s][365].day = 365

\* the calendar of the claim: Jan=31, Feb=28, ..., Dec=31, January first
CalendarNames ==
    <<"January", "February", "March", "April", "May", "June", "July", "August",
      "September", "October", "November", "December">>

CalendarLengths == <<31, 28, 31, 30, 31, 30, 31, 31, 30, 31, 30, 31>>

RECURSIVE CalendarEnd(_)
CalendarEnd(m) == IF m = 0 THEN 0 ELSE CalendarLengths[m] + CalendarEnd(m - 1)

CalendarMonth ==
    [ d \in 1..365 |->
        CalendarNames[CHOOSE m \in 1..12 : CalendarEnd(m - 1) < d /\ d <= CalendarEnd(m)] ]

\* the season mapping of the claim
CalendarSeason ==
    [ m \in MonthNames |->
        IF m \in {"January", "February", "November", "December"} THEN "winter"
        ELSE IF m \in {"March", "April", "May", "June"} THEN "summer"
        ELSE "monsoon" ]

\* C2: in every row, month is the calendar month that contains the row's
\* day, and season is the fixed mapping applied to that month.
C2_MonthAndSeasonOfDay ==
    \A s \in Sessions :
        started[s] =>
            \A i \in 1..Len(df[s]) :
                /\ df[s][i].day \in 1..365
                /\ df[s][i].month = CalendarMonth[df[s][i].day]
                /\ df[s][i].season = CalendarSeason[df[s][i].month]

C2_Witness ==
    \E s \in Sessions :
        /\ started[s]
        /\ df[s][59].month = "February" /\ df[s][59].season = "winter"
        /\ df[s][60].month = "March" /\ df[s][60].season = "summer"
        /\ df[s][182].month = "July" /\ df[s][182].season = "monsoon"

\* the formula of a season applied to five values d
FormulaOf(season, d) ==
    CASE season = "summer"  -> calc_kwh_summer(d[1], d[2], d[3], d[4], d[5])
      [] season = "winter"  -> calc_kwh_winter(d[1], d[2], d[3], d[4], d[5])
      [] season = "monsoon" -> calc_kwh_monsoon(d[1], d[2], d[3], d[4], d[5])

SummerScenario == <<800 * Unit, 30 * Unit, 2 * Unit, 38 * Unit, 30 * Unit>>
WinterScenario == <<500 * Unit, 50 * Unit, 3 * Unit, 12 * Unit, 10 * Unit>>

\* C3: the kwh of a generated row is the formula of the row's own season on
\* the five samples of that row, the dispatch returns a formula for every
\* month of the calendar, the summer scenario gives 202.34 and the winter
\* scenario gives 89.105.
C3_KwhIsSeasonFormula ==
    /\ \A m \in MonthNames : get_kwh_calculator(MonthSeason(m)) # "None"
    /\ data # <<>> =>
        /\ kwh = FormulaOf(data[1].season, draw)
        /\ data[1].kwh = Round2(kwh, KwhCent)
        /\ (data[1].season = "summer" /\ draw = SummerScenario) => kwh = 202340 * Unit
        /\ (data[1].season = "winter" /\ draw = WinterScenario) => kwh = 89105 * Unit

C3_Witness ==
    /\ data # <<>>
    /\ data[1].season = "winter"
    /\ draw = WinterScenario
    /\ kwh = 89105 * Unit
    /\ data[1].kwh = 8910

\* the five stored (rounded) fields of a row, back in sample units
StoredFields(row) ==
    <<row.irradiance * SubSteps, row.humidity * SubSteps, row.wind_speed * SubSteps,
      row.ambient_temperature * SubSteps, row.tilt_angle * SubSteps>>

RecomputeError(row) ==
    Abs(FormulaOf(row.season, StoredFields(row)) - row.kwh * KwhCent)

\* C4: kwh recomputed from the stored, rounded fields of a row differs from
\* the stored kwh by at most 0.01.
C4_RecomputeWithinCent ==
    data # <<>> => RecomputeError(data[1]) <= KwhCent

\* a row whose samples and kwh were all changed by the rounding and whose
\* recomputed kwh is more than half a cent away from the stored one
C4_Witness ==
    /\ data # <<>>
    /\ StoredFields(data[1]) # draw
    /\ data[1].kwh * KwhCent # kwh
    /\ 2 * RecomputeError(data[1]) > KwhCent

\* the samples the spec calls extreme: irradiance at the low end, humidity at
\* the high end, tilt at the end farther from 30 (10, deviation 20)
ExtremeDraw(season) ==
    /\ draw[1] = RangeOf(season, "irradiance")[1] * Unit
    /\ draw[2] = RangeOf(season, "humidity")[2] * Unit - 1
    /\ draw[3] = RangeOf(season, "wind_speed")[1] * Unit
    /\ draw[4] = RangeOf(season, "ambient_temperature")[1] * Unit
    /\ draw[5] = RangeOf(season, "tilt_angle")[1] * Unit

\* C5 as stated: a row with kwh < 0 is reachable for extreme in-range
\* samples.  Every formula falls with irradiance, wind and temperature
\* falling and with humidity and tilt deviation rising, so a negative kwh
\* exists in a season iff the extreme samples of that season give one.
C5_NegativeAtExtremes ==
    (data # <<>> /\ ExtremeDraw(data[1].season)) => data[1].kwh < 0

\* C5 (amended): no clamping is applied, yet the kwh of every row is
\* positive for every in-range sample, and at least 5.22 once rounded.
C5_KwhAlwaysPositive ==
    data # <<>> =>
        /\ kwh > 0
        /\ data[1].kwh = Round2(kwh, KwhCent)
        /\ data[1].kwh >= 522

C5_Witness ==
    /\ data # <<>>
    /\ data[1].season = "monsoon"
    /\ ExtremeDraw("monsoon")
    /\ data[1].kwh = 522

\* C6: every stored sample lies in the closed interval configured for its
\* field in the row's season, and every configured interval has high >= low.
C6_StoredInsideRange ==
    /\ \A season \in AllSeasons : \A i \in 1..5 :
          feature_ranges[season][Fields[i]][2] >= feature_ranges[season][Fields[i]][1]
    /\ data # <<>> =>
          \A i \in 1..5 :
              /\ data[1][Fields[i]] >= 100 * feature_ranges[data[1].season][Fields[i]][1]
              /\ data[1][Fields[i]] <= 100 * feature_ranges[data[1].season][Fields[i]][2]

\* a sample below high that the rounding lifts onto the closed end high,
\* next to one stored on the closed end low
C6_Witness ==
    /\ data # <<>>
    /\ draw[1] < feature_ranges[data[1].season].irradiance[2] * Unit
    /\ data[1].irradiance = 100 * feature_ranges[data[1].season].irradiance[2]
    /\ data[1].humidity = 100 * feature_ranges[data[1].season].humidity[1]

\* C7: within one session the sampling runs at most once, and from the
\* session's first render on no re-render samples again or sees another table.
C7_SampledAtMostOncePerSession ==
    [][ \A s \in Sessions :
          /\ sampled'[s] <= 1
          /\ started[s] => (sampled'[s] = sampled[s] /\ df'[s] = df[s]) ]_vars

\* a session that sampled on its first render and re-rendered after a
\* filter change
C7_Witness ==
    \E s \in Sessions :
        /\ started[s]
        /\ sampled[s] = 1
        /\ selected_months[s] # MonthNames
        /\ df[s] = cache.value

\* C8: each session is served a table sampled for it: every session that
\* has rendered caused one execution of the generator of its own.
C8_OwnSamplePerSession ==
    \A s \in Sessions : started[s] => sampled[s] = 1

Selected(row, s) == row.season \in selected_seasons[s] /\ row.month \in selected_months[s]

\* C9: the filtered view holds exactly the rows of the source table whose
\* season and month are both selected, in source order, and the source
\* table is the cached one, unchanged.
C9_FilterIsConjunction ==
    \A s \in Sessions :
        started[s] =>
            /\ df[s] = cache.value
            /\ \A i \in 1..Len(filtered_df[s]) :
                  /\ filtered_df[s][i].day \in 1..Len(df[s])
                  /\ filtered_df[s][i] = df[s][filtered_df[s][i].day]
                  /\ Selected(filtered_df[s][i], s)
                  /\ i > 1 => filtered_df[s][i - 1].day < filtered_df[s][i].day
            /\ Len(filtered_df[s]) =
                  Cardinality({ j \in 1..Len(df[s]) : Selected(df[s][j], s) })

\* a session with a season and a month deselected, the month of another
\* season than the deselected one
C9_Witness ==
    \E s \in Sessions :
        /\ started[s]
        /\ selected_seasons[s] = {"summer", "monsoon"}
        /\ selected_months[s] = MonthNames \ {"March"}
        /\ Len(filtered_df[s]) = 214

GroupCount(table, g) == Cardinality({ i \in 1..Len(table) : table[i].season = g })

\* sum over the three seasons of count * mean, an exact number of cents
WeightedSum(table, avg) ==
    (GroupCount(table, "summer") * avg["summer"].num) \div avg["summer"].den
    + (GroupCount(table, "winter") * avg["winter"].num) \div avg["winter"].den
    + (GroupCount(table, "monsoon") * avg["monsoon"].num) \div avg["monsoon"].den

\* C10: with nothing deselected, grouping by season gives exactly the three
\* groups summer, winter and monsoon, their row counts sum to 365, and the
\* mean of the three group means weighted by the counts is the overall mean.
C10_SeasonGroupsWeightedMean ==
    \A s \in Sessions :
        (started[s] /\ selected_seasons[s] = AllSeasons /\ selected_months[s] = MonthNames) =>
            /\ DOMAIN seasonal_avg[s] = AllSeasons
            /\ \A g \in AllSeasons :
                  /\ seasonal_avg[s][g].den > 0
                  /\ (GroupCount(df[s], g) * seasonal_avg[s][g].num) % seasonal_avg[s][g].den = 0
            /\ GroupCount(df[s], "summer") + GroupCount(df[s], "winter")
                  + GroupCount(df[s], "monsoon") = 365
            /\ WeightedSum(df[s], seasonal_avg[s]) * Len(df[s])
                  = SumKwh(df[s], 1, Len(df[s])) * 365

C10_Witness ==
    \E s \in Sessions :
        /\ started[s]
        /\ selected_seasons[s] = AllSeasons
        /\ selected_months[s] = MonthNames
        /\ seasonal_avg[s]["summer"].den = 122
        /\ seasonal_avg[s]["winter"].den = 120
        /\ seasonal_avg[s]["monsoon"].den = 123

====
